---- MODULE Spec2Model ----
(***************************************************************************)
(* Model of src/eval/value.rs: the dynamic Value type, its derived         *)
(* equality, the renderer (Pretty), the evaluation bridge (Eval), the      *)
(* type-erasure container (ValueAny), function values (ValueFunc) and the  *)
(* cast protocol (Cast, impl_primitive!, impl_type!, Spanned casts).       *)
(*                                                                         *)
(* Representation.  A Value is a pair <<variant, payload>>.  A value of a  *)
(* host type T is a pair <<T, payload>>; a ValueAny is exactly such a pair *)
(* (the boxed instance together with its runtime type id).  A Rust String  *)
(* is a TLA+ string; as_bytes gives its bytes where the code looks at them.*)
(* A CastResult is <<"Ok", t>>, <<"Warn", t, m>> or <<"Err", v>>.          *)
(***************************************************************************)
EXTENDS Integers, Sequences, FiniteSets, TLC

VARIABLES
    castIn,     \* the argument of the last cast (a Value or a Spanned<Value>)
    castTarget, \* the type the last cast asked for
    castOut,    \* the CastResult of the last cast
    any,        \* the ValueAny a caller currently owns, or NoAny once unwrapped
    anyOrig,    \* the ValueAny as ValueAny::new built it
    anyGot,     \* what the last successful downcast handed out
    anyFails,   \* number of failed downcasts since ValueAny::new
    sink,       \* EvalContext: the nodes pushed so far
    evaluated,  \* the Values evaluated into the context so far
    arr,        \* a ValueArray (Vec<Value>) under construction
    dict,       \* a ValueDict (BTreeMap<String, Value>) under construction
    inserted,   \* the (key, value) pairs in the order they were inserted
    lhs,        \* left operand of the last == comparison
    rhs,        \* right operand of the last == comparison
    eqOut       \* result of the last == comparison

vars == <<castIn, castTarget, castOut, any, anyOrig, anyGot, anyFails,
          sink, evaluated, arr, dict, inserted, lhs, rhs, eqOut>>

(***************************************************************************)
(* Bounds of the model.                                                    *)
(***************************************************************************)
MaxInt == 2        \* integers range over -MaxInt..MaxInt (plus 12 and 124)
MaxSink == 2       \* number of Values evaluated into one context
MaxArr == 2        \* length of the array under construction
MaxInserts == 3    \* number of BTreeMap insertions
MaxFails == 2      \* failed downcasts tried on one container
MaxSpan == 1       \* spans range over 0..MaxSpan

(***************************************************************************)
(* Strings, integers and floats.                                           *)
(***************************************************************************)
\* The bytes of the strings the model uses.
as_bytes(s) ==
    CASE s = "" -> << >>
      [] s = "x" -> <<"x">>
      [] s = "a" -> <<"a">>
      [] s = "ab" -> <<"a", "b">>
      [] s = "b" -> <<"b">>
      [] s = "one" -> <<"o", "n", "e">>
      [] s = "two" -> <<"t", "w", "o">>
      [] s = "nil" -> <<"n", "i", "l">>
      [] s = "id" -> <<"i", "d">>
      [] s = "q\"" -> <<"q", "\"">>
      [] s = "5" -> <<"5">>

\* The byte value of a character.
byte(c) ==
    CASE c = "\"" -> 34
      [] c = "5" -> 53
      [] c = "a" -> 97
      [] c = "b" -> 98
      [] c = "d" -> 100
      [] c = "e" -> 101
      [] c = "i" -> 105
      [] c = "l" -> 108
      [] c = "n" -> 110
      [] c = "o" -> 111
      [] c = "q" -> 113
      [] c = "t" -> 116
      [] c = "w" -> 119
      [] c = "x" -> 120

\* Ord for String: lexicographic on bytes, a proper prefix is smaller.
RECURSIVE bytes_lt(_, _)
bytes_lt(a, b) ==
    IF b = << >> THEN FALSE
    ELSE IF a = << >> THEN TRUE
    ELSE IF byte(Head(a)) # byte(Head(b)) THEN byte(Head(a)) < byte(Head(b))
    ELSE bytes_lt(Tail(a), Tail(b))

String_lt(a, b) == bytes_lt(as_bytes(a), as_bytes(b))

DigitChars == <<"0", "1", "2", "3", "4", "5", "6", "7", "8", "9">>

RECURSIVE Decimal(_)
Decimal(n) ==
    IF n < 10 THEN DigitChars[n + 1]
    ELSE Decimal(n \div 10) \o DigitChars[(n % 10) + 1]

\* itoa::Buffer::format: decimal digits, a leading '-' for negatives.
itoa_format(n) == IF n < 0 THEN "-" \o Decimal(-n) ELSE Decimal(n)

\* An f64 is <<class, negative, tenths>>: the finite value (+/-) tenths/10,
\* or NaN.  Both zeros exist: <<"fin", FALSE, 0>> and <<"fin", TRUE, 0>>.
F64(neg, tenths) == <<"fin", neg, tenths>>
NaN == <<"nan", FALSE, 0>>

\* f64's PartialEq (IEEE 754): NaN equals nothing, -0.0 equals +0.0.
f64_eq(a, b) ==
    /\ a[1] = "fin"
    /\ b[1] = "fin"
    /\ a[3] = b[3]
    /\ (a[3] = 0 \/ a[2] = b[2])

\* ryu::Buffer::format: shortest round-tripping decimal, sign kept on zero.
ryu_format(f) ==
    IF f[1] = "nan" THEN "NaN"
    ELSE (IF f[2] THEN "-" ELSE "") \o Decimal(f[3] \div 10) \o "."
         \o Decimal(f[3] % 10)

\* `v as f64` for an i64.
i64_as_f64(n) == IF n < 0 THEN F64(TRUE, (-n) * 10) ELSE F64(FALSE, n * 10)

\* <String as Debug>::fmt: double quotes, with '"' and '\' escaped.
RECURSIVE escape_debug(_)
escape_debug(bs) ==
    IF bs = << >> THEN ""
    ELSE (IF Head(bs) = "\"" THEN "\\\""
          ELSE IF Head(bs) = "\\" THEN "\\\\"
          ELSE Head(bs)) \o escape_debug(Tail(bs))

String_debug(s) == "\"" \o escape_debug(as_bytes(s)) \o "\""

(***************************************************************************)
(* Value and the payload types.                                            *)
(***************************************************************************)
Value_None == <<"None", 0>>
Value_Bool(v) == <<"Bool", v>>
Value_Int(v) == <<"Int", v>>
Value_Float(v) == <<"Float", v>>
Value_Length(v) == <<"Length", v>>
Value_Angle(v) == <<"Angle", v>>
Value_Relative(v) == <<"Relative", v>>
Value_Linear(v) == <<"Linear", v>>
Value_Color(v) == <<"Color", v>>
Value_Str(v) == <<"Str", v>>
Value_Array(v) == <<"Array", v>>
Value_Dict(v) == <<"Dict", v>>
Value_Template(v) == <<"Template", v>>
Value_Func(v) == <<"Func", v>>
Value_Any(v) == <<"Any", v>>
Value_Error == <<"Error", 0>>

\* geom: a Length, an Angle and a Relative wrap one f64; a Linear is
\* <<rel, abs>>.  A Color is one channel value c, standing for rgba(c,c,c,ff).
Linear_new(rel, abs) == <<rel, abs>>
Linear_from_Length(l) == Linear_new(F64(FALSE, 0), l)
Linear_from_Relative(r) == Linear_new(r, F64(FALSE, 0))
Linear_eq(a, b) == f64_eq(a[1], b[1]) /\ f64_eq(a[2], b[2])

Length_display(l) == ryu_format(l) \o "pt"
Angle_display(a) == ryu_format(a) \o "deg"
Relative_display(r) == ryu_format(r) \o "%"
Linear_display(l) == Relative_display(l[1]) \o " + " \o Length_display(l[2])
Color_display(c) == "#0" \o Decimal(c) \o "0" \o Decimal(c) \o "0" \o Decimal(c)

\* syntax: a Tree is a sequence of nodes, <<"Strong", "">> or <<"Text", s>>.
Node_Strong == <<"Strong", "">>
Node_Text(s) == <<"Text", s>>

RECURSIVE Tree_pretty(_)
Tree_pretty(tree) ==
    IF tree = << >> THEN ""
    ELSE (IF Head(tree)[1] = "Strong" THEN "*" ELSE Head(tree)[2])
         \o Tree_pretty(Tail(tree))

\* EvalContext::make_text_node.
make_text_node(s) == <<"TextNode", s>>

\* <Tree as Eval>::eval: what evaluating a markup subtree pushes to the sink.
RECURSIVE Tree_eval(_)
Tree_eval(tree) ==
    IF tree = << >> THEN << >>
    ELSE (IF Head(tree)[1] = "Text" THEN <<make_text_node(Head(tree)[2])>>
          ELSE << >>) \o Tree_eval(Tail(tree))

\* Printer::join: the rendered items with the separator between them.
RECURSIVE Printer_join(_, _)
Printer_join(items, sep) ==
    IF items = << >> THEN ""
    ELSE IF Len(items) = 1 THEN items[1]
    ELSE items[1] \o sep \o Printer_join(Tail(items), sep)

(***************************************************************************)
(* ValueFunc: <<name, f>>, f the identity of the shared closure (the Rc).  *)
(***************************************************************************)
ValueFunc_new(name, f) == <<name, f>>

ValueFunc_clone(a) == a

\* Mutant: functions compared by the identity of their shared closure.
ValueFunc_eq_ptr(a, b) == a[2] = b[2]

ValueFunc_eq(a, b) == FALSE

ValueFunc_pretty(a) == "(function " \o a[1] \o ")"

(***************************************************************************)
(* ValueAny: <<"ValueAny", x>> with x = <<T, payload>> the boxed instance  *)
(* of host type T.                                                         *)
(***************************************************************************)
\* T's own PartialEq, Display and name (the Bounds a boxed type must meet).
Host_eq(x, y) == IF x[1] = "f64" THEN f64_eq(x[2], y[2]) ELSE x[2] = y[2]

\* <f64 as Display>::fmt: no fractional part when it is zero.
f64_display(f) ==
    IF f[1] = "nan" THEN "NaN"
    ELSE (IF f[2] THEN "-" ELSE "") \o Decimal(f[3] \div 10)
         \o (IF f[3] % 10 = 0 THEN "" ELSE "." \o Decimal(f[3] % 10))

Host_display(x) ==
    CASE x[1] = "i64" -> itoa_format(x[2])
      [] x[1] = "f64" -> f64_display(x[2])
      [] x[1] = "String" -> x[2]
      [] OTHER -> x[1] \o "(" \o x[2][1] \o ")"

ValueAny_new(x) == <<"ValueAny", x>>

ValueAny_is(c, T) == c[2][1] = T

\* Mutant: a failed downcast drops the container.
ValueAny_downcast_lossy(c, T) ==
    IF ValueAny_is(c, T) THEN <<"Ok", <<T, c[2][2]>> >>
    ELSE <<"Err", <<"moved", <<"none", 0>> >> >>

\* The Ok side is the boxed instance as a T.
ValueAny_downcast(c, T) ==
    IF ValueAny_is(c, T) THEN <<"Ok", <<T, c[2][2]>> >> ELSE <<"Err", c>>

ValueAny_downcast_ref(c, T) ==
    IF ValueAny_is(c, T) THEN <<"Some", <<T, c[2][2]>> >> ELSE <<"None", 0>>

ValueAny_clone(c) == ValueAny_new(c[2])

\* Mutant: a container of another type counts as equal.
dyn_eq_mismatch(x, other) ==
    LET o == ValueAny_downcast_ref(other, x[1])
    IN  IF o[1] = "Some" THEN Host_eq(x, o[2]) ELSE TRUE

\* Bounds::dyn_eq for the boxed instance x against another container.
dyn_eq(x, other) ==
    LET o == ValueAny_downcast_ref(other, x[1])
    IN  IF o[1] = "Some" THEN Host_eq(x, o[2]) ELSE FALSE

ValueAny_eq(a, b) == dyn_eq(a[2], b)

ValueAny_pretty(c) == Host_display(c[2])

(***************************************************************************)
(* #[derive(PartialEq)] for Value: same variant and equal payloads, each   *)
(* payload compared by its own PartialEq.                                  *)
(***************************************************************************)
RECURSIVE Value_eq(_, _)
Value_eq(a, b) ==
    IF a[1] # b[1] THEN FALSE
    ELSE CASE a[1] \in {"Float", "Length", "Angle", "Relative"} ->
                f64_eq(a[2], b[2])
           [] a[1] = "Linear" -> Linear_eq(a[2], b[2])
           [] a[1] = "Array" ->
                /\ Len(a[2]) = Len(b[2])
                /\ \A i \in 1..Len(a[2]) : Value_eq(a[2][i], b[2][i])
           [] a[1] = "Dict" ->
                /\ Len(a[2]) = Len(b[2])
                /\ \A i \in 1..Len(a[2]) :
                      /\ a[2][i][1] = b[2][i][1]
                      /\ Value_eq(a[2][i][2], b[2][i][2])
           [] a[1] = "Func" -> ValueFunc_eq(a[2], b[2])
           [] a[1] = "Any" -> ValueAny_eq(a[2], b[2])
           [] OTHER -> a[2] = b[2]

(***************************************************************************)
(* ValueDict = BTreeMap<String, Value>: the entries as a sequence of       *)
(* <<key, value>> in ascending key order, keys unique.                     *)
(***************************************************************************)
RECURSIVE BTreeMap_insert(_, _, _)
BTreeMap_insert(map, key, value) ==
    IF map = << >> THEN << <<key, value>> >>
    ELSE IF Head(map)[1] = key THEN << <<key, value>> >> \o Tail(map)
    ELSE IF String_lt(key, Head(map)[1]) THEN << <<key, value>> >> \o map
    ELSE <<Head(map)>> \o BTreeMap_insert(Tail(map), key, value)

(***************************************************************************)
(* The renderer: impl Pretty for Value, ValueArray, ValueDict.             *)
(***************************************************************************)
RECURSIVE Value_pretty(_)

\* Mutant: the trailing comma written for every non-empty array.
ValueArray_pretty_comma(a) ==
    "(" \o Printer_join([i \in 1..Len(a) |-> Value_pretty(a[i])], ", ")
        \o (IF Len(a) >= 1 THEN "," ELSE "") \o ")"

ValueArray_pretty(a) ==
    "(" \o Printer_join([i \in 1..Len(a) |-> Value_pretty(a[i])], ", ")
        \o (IF Len(a) = 1 THEN "," ELSE "") \o ")"

ValueDict_pretty(d) ==
    "(" \o (IF d = << >> THEN ":"
            ELSE Printer_join([i \in 1..Len(d) |->
                     d[i][1] \o ": " \o Value_pretty(d[i][2])], ", "))
        \o ")"

Value_pretty(v) ==
    CASE v[1] = "None" -> "none"
      [] v[1] = "Bool" -> IF v[2] THEN "true" ELSE "false"
      [] v[1] = "Int" -> itoa_format(v[2])
      [] v[1] = "Float" -> ryu_format(v[2])
      [] v[1] = "Length" -> Length_display(v[2])
      [] v[1] = "Angle" -> Angle_display(v[2])
      [] v[1] = "Relative" -> Relative_display(v[2])
      [] v[1] = "Linear" -> Linear_display(v[2])
      [] v[1] = "Color" -> Color_display(v[2])
      [] v[1] = "Str" -> String_debug(v[2])
      [] v[1] = "Array" -> ValueArray_pretty(v[2])
      [] v[1] = "Dict" -> ValueDict_pretty(v[2])
      [] v[1] = "Template" -> "[" \o Tree_pretty(v[2]) \o "]"
      [] v[1] = "Func" -> ValueFunc_pretty(v[2])
      [] v[1] = "Any" -> ValueAny_pretty(v[2])
      [] v[1] = "Error" -> "(error)"

\* pretty(): render into a fresh Printer and take its text.
pretty(v) == Value_pretty(v)

(***************************************************************************)
(* The evaluation bridge: impl Eval for &Value.  The nodes one eval call   *)
(* pushes to the context, in order.                                        *)
(***************************************************************************)
\* Mutant: strings pushed in their rendered (quoted) form like the rest.
Value_eval_quoted(v) ==
    CASE v[1] = "None" -> << >>
      [] v[1] = "Template" -> Tree_eval(v[2])
      [] OTHER -> <<make_text_node(pretty(v))>>

Value_eval(v) ==
    CASE v[1] = "None" -> << >>
      [] v[1] = "Str" -> <<make_text_node(v[2])>>
      [] v[1] = "Template" -> Tree_eval(v[2])
      [] OTHER -> <<make_text_node(pretty(v))>>

(***************************************************************************)
(* The cast protocol.                                                      *)
(***************************************************************************)
CastResult_Ok(t) == <<"Ok", t>>
CastResult_Warn(t, m) == <<"Warn", t, m>>
CastResult_Err(v) == <<"Err", v>>

\* CastResult::ok: the conversion result without the warning.
CastResult_ok(r) == IF r[1] = "Err" THEN <<"None", 0>> ELSE <<"Some", r[2]>>

\* The impl_primitive! invocations: the types, and the variant of each.
PrimitiveTypes ==
    {"bool", "i64", "f64", "Length", "Angle", "Relative", "Linear", "Color",
     "String", "ValueArray", "ValueDict", "ValueTemplate", "ValueFunc"}

Variant(T) ==
    CASE T = "bool" -> "Bool"
      [] T = "i64" -> "Int"
      [] T = "f64" -> "Float"
      [] T = "Length" -> "Length"
      [] T = "Angle" -> "Angle"
      [] T = "Relative" -> "Relative"
      [] T = "Linear" -> "Linear"
      [] T = "Color" -> "Color"
      [] T = "String" -> "Str"
      [] T = "ValueArray" -> "Array"
      [] T = "ValueDict" -> "Dict"
      [] T = "ValueTemplate" -> "Template"
      [] T = "ValueFunc" -> "Func"

\* Types registered with impl_type!: each invocation gives the type, its
\* `$pattern => $out` arms and its `#($anyvar: $anytype) => $anyout` arms.
HostTypes == {"Weight", "Align", "Family", "Twice"}

\* The `$pattern => $out` arms of a type, in declaration order, each as
\* <<variant matched, conversion>>.
Patterns(T) ==
    CASE T = "f64" -> << <<"Int", "as_f64">> >>
      [] T = "Linear" -> << <<"Length", "from_length">>,
                            <<"Relative", "from_relative">> >>
      [] T = "Weight" -> << <<"Int", "weight_from_int">> >>
      [] T = "Family" -> << <<"Str", "family_from_str">> >>
      [] T = "Twice" -> << <<"Int", "twice_first">>, <<"Int", "twice_second">> >>
      [] OTHER -> << >>

\* The `#($anyvar: $anytype) => $anyout` arms of a type, in declaration
\* order, each as <<anytype, conversion>>.
AnyPatterns(T) ==
    CASE T = "Family" -> << <<"Weight", "family_from_weight">>,
                            <<"Align", "family_from_align">> >>
      [] T = "Twice" -> << <<"i64", "twice_any_first">>,
                           <<"i64", "twice_any_second">>,
                           <<"Weight", "twice_from_weight">> >>
      [] OTHER -> << >>

\* `$out` evaluated with the matched payload bound.  A host type's payload
\* is <<how it was made, from what>>.
PatternOut(out, v) ==
    CASE out = "as_f64" -> i64_as_f64(v)
      [] out = "from_length" -> Linear_from_Length(v)
      [] out = "from_relative" -> Linear_from_Relative(v)
      [] OTHER -> <<out, v>>

\* `match`: the index of the first arm whose pattern matches, 0 if none.
FirstMatch(patterns, value) ==
    LET hits == {i \in 1..Len(patterns) : patterns[i][1] = value[1]}
    IN  IF hits = {} THEN 0 ELSE CHOOSE i \in hits : \A j \in hits : i <= j

\* Mutant: a failed cast hands back Value::None instead of its argument.
impl_primitive_cast_drop(T, value) ==
    IF value[1] = Variant(T) THEN CastResult_Ok(<<T, value[2]>>)
    ELSE LET i == FirstMatch(Patterns(T), value)
         IN  IF i > 0
             THEN CastResult_Ok(<<T, PatternOut(Patterns(T)[i][2], value[2])>>)
             ELSE CastResult_Err(Value_None)

\* Mutant: f64 and i64 coerce into each other.
impl_primitive_cast_symmetric(T, value) ==
    IF value[1] = Variant(T) THEN CastResult_Ok(<<T, value[2]>>)
    ELSE IF T = "i64" /\ value[1] = "Float" /\ value[2][1] = "fin"
    THEN CastResult_Ok(<<T, value[2][3] \div 10>>)
    ELSE LET i == FirstMatch(Patterns(T), value)
         IN  IF i > 0
             THEN CastResult_Ok(<<T, PatternOut(Patterns(T)[i][2], value[2])>>)
             ELSE CastResult_Err(value)

\* impl_primitive!: Cast<Value> for a primitive type T.
impl_primitive_cast(T, value) ==
    IF value[1] = Variant(T) THEN CastResult_Ok(<<T, value[2]>>)
    ELSE LET i == FirstMatch(Patterns(T), value)
         IN  IF i > 0
             THEN CastResult_Ok(<<T, PatternOut(Patterns(T)[i][2], value[2])>>)
             ELSE CastResult_Err(value)

\* The chain of `any = match any.downcast::<$anytype>() {..}` statements.
RECURSIVE downcast_chain(_, _, _)
downcast_chain(T, anys, c) ==
    IF anys = << >> THEN CastResult_Err(Value_Any(c))
    ELSE LET d == ValueAny_downcast(c, Head(anys)[1])
         IN  IF d[1] = "Ok"
             THEN CastResult_Ok(<<T, <<Head(anys)[2], d[2]>> >>)
             ELSE downcast_chain(T, Tail(anys), d[2])

\* Mutant: the Value::Any arm tried before the declared patterns, and the
\* downcast to Self left out.
impl_type_cast_noself(T, value) ==
    IF value[1] = "Any" THEN downcast_chain(T, AnyPatterns(T), value[2])
    ELSE LET i == FirstMatch(Patterns(T), value)
         IN  IF i > 0
             THEN CastResult_Ok(<<T, PatternOut(Patterns(T)[i][2], value[2])>>)
             ELSE CastResult_Err(value)

\* impl_type!: Cast<Value> for a registered host type T.
impl_type_cast(T, value) ==
    LET i == FirstMatch(Patterns(T), value)
    IN  IF i > 0
        THEN CastResult_Ok(<<T, PatternOut(Patterns(T)[i][2], value[2])>>)
        ELSE IF value[1] = "Any"
        THEN LET d == ValueAny_downcast(value[2], T)
             IN  IF d[1] = "Ok" THEN CastResult_Ok(d[2])
                 ELSE downcast_chain(T, AnyPatterns(T), d[2])
        ELSE CastResult_Err(value)

\* impl Cast<Value> for Value.
Value_cast_Value(value) == CastResult_Ok(<<"Value", value>>)

\* A Cast<Value> written by hand for a host type "Rounded": integers are
\* taken as they are, floats are taken with a warning.
Rounded_cast(value) ==
    CASE value[1] = "Int" -> CastResult_Ok(<<"Rounded", value[2]>>)
      [] value[1] = "Float" /\ value[2][1] = "fin" ->
            CastResult_Warn(<<"Rounded", value[2][3] \div 10>>, "rounded")
      [] OTHER -> CastResult_Err(value)

CastTargets == PrimitiveTypes \cup HostTypes \cup {"Value", "Rounded"}

\* Value::cast::<T>: T::cast(self).
Value_cast(T, value) ==
    IF T \in PrimitiveTypes THEN impl_primitive_cast(T, value)
    ELSE IF T \in HostTypes THEN impl_type_cast(T, value)
    ELSE IF T = "Value" THEN Value_cast_Value(value)
    ELSE Rounded_cast(value)

\* Spanned<T> and WithSpan::with_span.
Spanned(v, span) == <<"Spanned", v, span>>
with_span(v, span) == Spanned(v, span)

\* Mutant: the failed cast returns the bare value.
Cast_Spanned_for_T_bare_err(T, value) ==
    LET span == value[3]
        r == Value_cast(T, value[2])
    IN  r

\* impl<T: Cast<Value>> Cast<Spanned<Value>> for T.
Cast_Spanned_for_T(T, value) ==
    LET span == value[3]
        r == Value_cast(T, value[2])
    IN  CASE r[1] = "Ok" -> CastResult_Ok(r[2])
          [] r[1] = "Warn" -> CastResult_Warn(r[2], r[3])
          [] r[1] = "Err" -> CastResult_Err(with_span(r[2], span))

\* impl<T: Cast<Value>> Cast<Spanned<Value>> for Spanned<T>.
Cast_Spanned_for_Spanned(T, value) ==
    LET span == value[3]
        r == Value_cast(T, value[2])
    IN  CASE r[1] = "Ok" -> CastResult_Ok(with_span(r[2], span))
          [] r[1] = "Warn" -> CastResult_Warn(with_span(r[2], span), r[3])
          [] r[1] = "Err" -> CastResult_Err(with_span(r[2], span))

(***************************************************************************)
(* The values the operations are applied to.                               *)
(***************************************************************************)
Ints == -MaxInt..MaxInt
Floats == {F64(neg, t) : neg \in BOOLEAN, t \in {0, 5, 20}} \cup {NaN}
Strings == {"", "x", "q\""}
Spans == 0..MaxSpan

Funcs == {ValueFunc_new(name, f) : name \in {"nil", "id"}, f \in 1..2}
Trees == {<< >>, <<Node_Strong>>, <<Node_Text("a"), Node_Strong, Node_Text("b")>>}

\* Instances of host types that meet the bounds of ValueAny::new.
HostValues ==
    {<<"i64", n>> : n \in 0..1}
    \cup {<<"f64", f>> : f \in {F64(FALSE, 0), F64(FALSE, 5), NaN}}
    \cup {<<"String", "x">>}
    \cup {<<T, <<"new", n>> >> : T \in HostTypes, n \in 0..1}

Containers == {ValueAny_new(x) : x \in HostValues}

Scalars ==
    {Value_None, Value_Error}
    \cup {Value_Bool(b) : b \in BOOLEAN}
    \cup {Value_Int(n) : n \in Ints}
    \cup {Value_Float(f) : f \in Floats}
    \cup {Value_Length(f) : f \in {F64(FALSE, 0), F64(FALSE, 20), F64(FALSE, 55)}}
    \cup {Value_Angle(f) : f \in {F64(FALSE, 900)}}
    \cup {Value_Relative(f) : f \in {F64(FALSE, 0), F64(FALSE, 500)}}
    \cup {Value_Linear(Linear_new(r, a)) :
             r \in {F64(FALSE, 0), F64(FALSE, 300)},
             a \in {F64(FALSE, 0), F64(FALSE, 20)}}
    \cup {Value_Color(c) : c \in 0..1}
    \cup {Value_Str(s) : s \in Strings}

\* The elements arrays are built from, and the keys and values of
\* dictionaries.
Elems == {Value_None, Value_Int(1), Value_Int(2)}
Keys == {"a", "ab", "b", "one"}
DictValues == {Value_Int(1), Value_None}

SeqsUpTo(S, n) == UNION {[1..k -> S] : k \in 0..n}

Arrays ==
    {Value_Array(a) :
        a \in SeqsUpTo({Value_None, Value_Float(F64(FALSE, 0)),
                        Value_Float(F64(TRUE, 0))}, MaxArr)}

Dicts ==
    {Value_Dict(<< >>),
     Value_Dict(<< <<"one", Value_Int(1)>> >>),
     Value_Dict(<< <<"a", Value_Float(F64(FALSE, 0))>> >>),
     Value_Dict(<< <<"a", Value_Float(F64(TRUE, 0))>> >>),
     Value_Dict(<< <<"a", Value_None>>, <<"b", Value_Int(1)>> >>)}

Values ==
    Scalars \cup Arrays \cup Dicts
    \cup {Value_Template(t) : t \in Trees}
    \cup {Value_Func(f) : f \in Funcs}
    \cup {Value_Any(c) : c \in Containers}

EvalValues ==
    {Value_None, Value_Error, Value_Int(5), Value_Int(-1), Value_Str("x"),
     Value_Str(""), Value_Str("q\""), Value_Float(F64(FALSE, 124)),
     Value_Bool(FALSE), Value_Array(<<Value_None>>), Value_Dict(<< >>),
     Value_Length(F64(FALSE, 55)), Value_Color(1),
     Value_Func(ValueFunc_new("nil", 1)),
     Value_Any(ValueAny_new(<<"i64", 1>>))}
    \cup {Value_Template(t) : t \in Trees}

DowncastTypes == {"i64", "f64", "String"} \cup HostTypes

NoAny == <<"moved", <<"none", 0>> >>
NoResult == <<"none", 0>>

(***************************************************************************)
(* The state machine.  Its five components share no state: casts, the      *)
(* container a caller owns, one evaluation context, the collections under  *)
(* construction, and comparisons.  Cast and == are pure functions: the     *)
(* initial state holds their arguments and one step applies them.          *)
(***************************************************************************)
castVars == <<castIn, castTarget, castOut>>
anyVars == <<any, anyOrig, anyGot, anyFails>>
evalVars == <<sink, evaluated>>
collVars == <<arr, dict, inserted>>
eqVars == <<lhs, rhs, eqOut>>

\* The arguments of the cast and of the comparison are drawn from the
\* bounded sets; the container, the context and the collections are empty.
\* A cast is asked for a Value, or for a Spanned<Value> with target T or
\* Spanned<T>.
Init ==
    /\ castOut = NoResult
    /\ \/ /\ castIn \in Values
          /\ castTarget \in {<<"T", T>> : T \in CastTargets}
       \/ /\ castIn \in {Spanned(v, span) : v \in Values, span \in Spans}
          /\ castTarget \in {<<k, T>> : k \in {"T", "Spanned"}, T \in CastTargets}
    /\ any = NoAny
    /\ anyOrig = NoAny
    /\ anyGot = NoResult
    /\ anyFails = << >>
    /\ sink = << >>
    /\ evaluated = << >>
    /\ arr = << >>
    /\ dict = << >>
    /\ inserted = << >>
    /\ lhs \in Values
    /\ rhs \in Values
    /\ eqOut = NoResult

\* The initial states of each component on its own, the others at rest.
InitCast ==
    /\ castOut = NoResult
    /\ \/ /\ castIn \in Values
          /\ castTarget \in {<<"T", T>> : T \in CastTargets}
       \/ /\ castIn \in {Spanned(v, span) : v \in Values, span \in Spans}
          /\ castTarget \in {<<k, T>> : k \in {"T", "Spanned"}, T \in CastTargets}
    /\ any = NoAny
    /\ anyOrig = NoAny
    /\ anyGot = NoResult
    /\ anyFails = << >>
    /\ sink = << >>
    /\ evaluated = << >>
    /\ arr = << >>
    /\ dict = << >>
    /\ inserted = << >>
    /\ lhs = Value_None
    /\ rhs = Value_None
    /\ eqOut = NoResult

InitEq ==
    /\ castIn = Value_None
    /\ castTarget = <<"T", "Value">>
    /\ castOut = NoResult
    /\ any = NoAny
    /\ anyOrig = NoAny
    /\ anyGot = NoResult
    /\ anyFails = << >>
    /\ sink = << >>
    /\ evaluated = << >>
    /\ arr = << >>
    /\ dict = << >>
    /\ inserted = << >>
    /\ lhs \in Values
    /\ rhs \in Values
    /\ eqOut = NoResult

InitRest ==
    /\ castIn = Value_None
    /\ castTarget = <<"T", "Value">>
    /\ castOut = NoResult
    /\ any = NoAny
    /\ anyOrig = NoAny
    /\ anyGot = NoResult
    /\ anyFails = << >>
    /\ sink = << >>
    /\ evaluated = << >>
    /\ arr = << >>
    /\ dict = << >>
    /\ inserted = << >>
    /\ lhs = Value_None
    /\ rhs = Value_None
    /\ eqOut = NoResult

\* value.cast::<T>() on a Value.
Cast ==
    /\ castOut = NoResult
    /\ castIn[1] # "Spanned"
    /\ castOut' = Value_cast(castTarget[2], castIn)
    /\ UNCHANGED <<castIn, castTarget, anyVars, evalVars, collVars, eqVars>>

\* T::cast on a Spanned<Value>.
CastSpanned ==
    /\ castOut = NoResult
    /\ castIn[1] = "Spanned"
    /\ castTarget[1] = "T"
    /\ castOut' = Cast_Spanned_for_T(castTarget[2], castIn)
    /\ UNCHANGED <<castIn, castTarget, anyVars, evalVars, collVars, eqVars>>

\* Spanned::<T>::cast on a Spanned<Value>.
CastToSpanned ==
    /\ castOut = NoResult
    /\ castIn[1] = "Spanned"
    /\ castTarget[1] = "Spanned"
    /\ castOut' = Cast_Spanned_for_Spanned(castTarget[2], castIn)
    /\ UNCHANGED <<castIn, castTarget, anyVars, evalVars, collVars, eqVars>>

\* ValueAny::new(x).
AnyNew(x) ==
    /\ any' = ValueAny_new(x)
    /\ anyOrig' = ValueAny_new(x)
    /\ anyGot' = NoResult
    /\ anyFails' = << >>
    /\ UNCHANGED <<castVars, evalVars, collVars, eqVars>>

\* any.downcast::<U>(): consumes the container; on Err the caller owns the
\* container the call returned.
AnyDowncast(U) ==
    /\ any # NoAny
    /\ LET d == ValueAny_downcast(any, U)
       IN  IF d[1] = "Ok"
           THEN /\ any' = NoAny
                /\ anyGot' = d[2]
                /\ anyFails' = anyFails
           ELSE /\ Len(anyFails) < MaxFails
                /\ any' = d[2]
                /\ anyGot' = NoResult
                /\ anyFails' = Append(anyFails, U)
    /\ UNCHANGED <<anyOrig, castVars, evalVars, collVars, eqVars>>

\* value.eval(ctx) with ctx the one evaluation context.
Eval(v) ==
    /\ Len(evaluated) < MaxSink
    /\ sink' = sink \o Value_eval(v)
    /\ evaluated' = Append(evaluated, v)
    /\ UNCHANGED <<castVars, anyVars, collVars, eqVars>>

\* vec.push(v).
ArrayPush(v) ==
    /\ Len(arr) < MaxArr
    /\ arr' = Append(arr, v)
    /\ UNCHANGED <<dict, inserted, castVars, anyVars, evalVars, eqVars>>

\* map.insert(key, v).
DictInsert(key, v) ==
    /\ Len(inserted) < MaxInserts
    /\ dict' = BTreeMap_insert(dict, key, v)
    /\ inserted' = Append(inserted, <<key, v>>)
    /\ UNCHANGED <<arr, castVars, anyVars, evalVars, eqVars>>

\* lhs == rhs.
Compare ==
    /\ eqOut = NoResult
    /\ eqOut' = <<"bool", Value_eq(lhs, rhs)>>
    /\ UNCHANGED <<lhs, rhs, castVars, anyVars, evalVars, collVars>>

NextCast == Cast \/ CastSpanned \/ CastToSpanned

NextAny ==
    \/ \E x \in HostValues : AnyNew(x)
    \/ \E U \in DowncastTypes : AnyDowncast(U)

NextEval == \E v \in EvalValues : Eval(v)

NextColl ==
    \/ \E v \in Elems : ArrayPush(v)
    \/ \E key \in Keys, v \in DictValues : DictInsert(key, v)

NextEq == Compare

Next == NextCast \/ NextAny \/ NextEval \/ NextColl \/ NextEq

Spec == Init /\ [][Next]_vars

\* Each component on its own, the others at rest.
SpecCast == InitCast /\ [][NextCast]_vars
SpecAny == InitRest /\ [][NextAny]_vars
SpecEval == InitRest /\ [][NextEval]_vars
SpecColl == InitRest /\ [][NextColl]_vars
SpecEq == InitEq /\ [][NextEq]_vars

(***************************************************************************)
(* Properties.                                                             *)
(***************************************************************************)
CastDone == castOut # NoResult
BareCastDone == CastDone /\ castIn[1] # "Spanned"
SpannedCastDone == CastDone /\ castIn[1] = "Spanned"

\* The coercions the impl_primitive! invocations declare.
DeclaresCoercion(T, variant) ==
    \/ T = "f64" /\ variant = "Int"
    \/ T = "Linear" /\ variant \in {"Length", "Relative"}

\* C1: casting V(p) to the primitive type T registered for variant V gives
\* Ok(p), the payload unchanged; casting a value v to a primitive type U
\* whose variant is not v's and which declares no coercion from v's variant
\* gives Err(v), v being the argument unchanged.
C1_PrimitiveCast ==
    (BareCastDone /\ castTarget[2] \in PrimitiveTypes) =>
        /\ castIn[1] = Variant(castTarget[2]) =>
              castOut = <<"Ok", <<castTarget[2], castIn[2]>> >>
        /\ (/\ castIn[1] # Variant(castTarget[2])
            /\ ~DeclaresCoercion(castTarget[2], castIn[1])) =>
              castOut = <<"Err", castIn>>

\* C1 witness: a string was cast to i64 and came back in the Err.
C1_Witness ==
    /\ castTarget = <<"T", "i64">>
    /\ castIn = Value_Str("x")
    /\ castOut = <<"Err", Value_Str("x")>>

\* C2 as stated: for a Spanned<Value> with span s, an Ok or Warn result
\* holds the converted payload tagged with s and an Err result holds the
\* original value tagged with s.
C2_AllResultsTagged ==
    SpannedCastDone =>
        /\ castOut[1] \in {"Ok", "Warn"} =>
              /\ castOut[2][1] = "Spanned"
              /\ castOut[2][3] = castIn[3]
        /\ castOut[1] = "Err" => castOut[2] = castIn

\* C2 amended: an Err result always holds the original value tagged with s;
\* an Ok or Warn result holds the converted payload tagged with s when the
\* target is Spanned<T>, and the converted payload untagged when the target
\* is T.
C2_TaggedErrAndSpannedTarget ==
    SpannedCastDone =>
        LET inner == Value_cast(castTarget[2], castIn[2])
        IN  /\ castOut[1] = "Err" => castOut[2] = castIn
            /\ castOut[1] = inner[1]
            /\ (castOut[1] \in {"Ok", "Warn"} /\ castTarget[1] = "Spanned") =>
                  castOut[2] = <<"Spanned", inner[2], castIn[3]>>
            /\ (castOut[1] \in {"Ok", "Warn"} /\ castTarget[1] = "T") =>
                  /\ castOut[2][1] # "Spanned"
                  /\ castOut[2] = inner[2]
            /\ castOut[1] = "Warn" => castOut[3] = inner[3]

\* C2 witness: a tagged integer was cast to i64 and the payload came back
\* untagged.
C2_Witness ==
    /\ castIn = Spanned(Value_Int(1), 1)
    /\ castTarget = <<"T", "i64">>
    /\ castOut = <<"Ok", <<"i64", 1>> >>

\* C3: two function values never compare equal, a function compared with
\* itself or with its clone included, and so Value::Func(a) == Value::Func(b)
\* is false for all a and b.
C3_FuncNeverEqual ==
    /\ \A a \in Funcs, b \in Funcs :
          /\ ~ValueFunc_eq(a, b)
          /\ ~ValueFunc_eq(a, ValueFunc_clone(a))
    /\ (eqOut # NoResult /\ lhs[1] = "Func" /\ rhs[1] = "Func") =>
          eqOut = <<"bool", FALSE>>

\* C3 witness: a function value was compared with itself and found unequal.
C3_Witness ==
    /\ lhs = Value_Func(ValueFunc_new("nil", 1))
    /\ rhs = lhs
    /\ eqOut = <<"bool", FALSE>>

\* C4: ValueAny::new(x).downcast::<T>() is Ok(x) for x of type T;
\* downcast::<U>() for another U is Err(c), c the container unchanged, so
\* after any number of failed downcasts downcast::<T>() still gives x.
C4_DowncastLossless ==
    /\ any # NoAny => any = anyOrig
    /\ anyGot # NoResult => (any = NoAny /\ anyGot = anyOrig[2])
    /\ (anyOrig # NoAny /\ any = NoAny) => anyGot = anyOrig[2]
    /\ \A i \in 1..Len(anyFails) : anyFails[i] # anyOrig[2][1]

\* C4 witness: two downcasts failed and the third handed out the i64.
C4_Witness ==
    /\ Len(anyFails) = 2
    /\ anyOrig = ValueAny_new(<<"i64", 1>>)
    /\ anyGot = <<"i64", 1>>

\* C5: two containers are equal iff they hold the same concrete type and
\* the payloads compare equal by that type's ==; containers of differing
\* concrete types are never equal; the comparison always yields a bool.
C5_AnyEq ==
    (eqOut # NoResult /\ lhs[1] = "Any" /\ rhs[1] = "Any") =>
        LET x == lhs[2][2]
            y == rhs[2][2]
        IN  /\ eqOut[1] = "bool"
            /\ eqOut[2] \in BOOLEAN
            /\ eqOut[2] <=> (x[1] = y[1] /\ Host_eq(x, y))
            /\ x[1] # y[1] => eqOut[2] = FALSE

\* C5 witness: an i64 zero and an f64 zero, both displayed "0", were found
\* unequal.
C5_Witness ==
    /\ lhs = Value_Any(ValueAny_new(<<"i64", 0>>))
    /\ rhs = Value_Any(ValueAny_new(<<"f64", F64(FALSE, 0)>>))
    /\ eqOut = <<"bool", FALSE>>

\* C6: if a == b then pretty(a) and pretty(b) are the same text.
C6_EqualRenderSame ==
    eqOut = <<"bool", TRUE>> => pretty(lhs) = pretty(rhs)

\* What evaluating v is to push, by variant.
EvalExpected(v) ==
    CASE v[1] = "None" -> << >>
      [] v[1] = "Str" -> << <<"TextNode", v[2]>> >>
      [] v[1] = "Template" -> Tree_eval(v[2])
      [] OTHER -> << <<"TextNode", pretty(v)>> >>

RECURSIVE EvalExpectedAll(_)
EvalExpectedAll(vs) ==
    IF vs = << >> THEN << >>
    ELSE EvalExpected(Head(vs)) \o EvalExpectedAll(Tail(vs))

\* C7: evaluating a sequence of Values into one context appends, in order:
\* nothing for None; one text node with the string verbatim for Str; one text
\* node with the rendering for every other variant but Template; and for a
\* Template what the subtree's evaluation pushes.
C7_EvalAppends ==
    /\ sink = EvalExpectedAll(evaluated)
    /\ evaluated = <<Value_Int(5)>> => sink = << <<"TextNode", "5">> >>
    /\ evaluated = <<Value_Str("q\"")>> => sink = << <<"TextNode", "q\"">> >>
    /\ evaluated = <<Value_None>> => sink = << >>

\* C7 witness: None and then Int(5) were evaluated, leaving one node "5".
C7_Witness ==
    /\ evaluated = <<Value_None, Value_Int(5)>>
    /\ sink = << <<"TextNode", "5">> >>

\* The keys inserted so far, the value last inserted under a key, and the
\* keys in ascending order.
InsertedKeys == {inserted[i][1] : i \in 1..Len(inserted)}

LastInserted(key) ==
    LET at == {i \in 1..Len(inserted) : inserted[i][1] = key}
    IN  inserted[CHOOSE i \in at : \A j \in at : j <= i][2]

KeyRank(key) == Cardinality({k \in InsertedKeys : String_lt(k, key)}) + 1

KeyAt(i) == CHOOSE key \in InsertedKeys : KeyRank(key) = i

RECURSIVE CommaJoined(_)
CommaJoined(texts) ==
    IF Len(texts) = 0 THEN ""
    ELSE IF Len(texts) = 1 THEN texts[1]
    ELSE CommaJoined(SubSeq(texts, 1, Len(texts) - 1)) \o ", "
         \o texts[Len(texts)]

\* C8: an array renders as '(' items joined by ', ' ')' with a ',' before
\* the ')' exactly when it has one element; a dictionary renders as '(:)'
\* exactly when empty and otherwise as '(' 'key: value' pairs joined by ', '
\* in ascending key order, whatever the insertion order, ')' with no
\* trailing comma.
C8_CollectionsRender ==
    /\ pretty(Value_Array(arr)) =
          "(" \o CommaJoined([i \in 1..Len(arr) |-> pretty(arr[i])])
              \o (IF Len(arr) = 1 THEN "," ELSE "") \o ")"
    /\ arr = << >> => pretty(Value_Array(arr)) = "()"
    /\ arr = <<Value_None>> => pretty(Value_Array(arr)) = "(none,)"
    /\ arr = <<Value_Int(1), Value_Int(2)>> =>
          pretty(Value_Array(arr)) = "(1, 2)"
    /\ (pretty(Value_Dict(dict)) = "(:)") <=> (inserted = << >>)
    /\ inserted # << >> =>
          pretty(Value_Dict(dict)) =
             "(" \o CommaJoined([i \in 1..Cardinality(InsertedKeys) |->
                        KeyAt(i) \o ": " \o pretty(LastInserted(KeyAt(i)))])
                 \o ")"
    /\ inserted = << <<"one", Value_Int(1)>> >> =>
          pretty(Value_Dict(dict)) = "(one: 1)"

\* C8 witness: "b", "ab" and "a" were inserted in descending order and a
\* one-element array was built.
C8_Witness ==
    /\ inserted = << <<"b", Value_Int(1)>>, <<"ab", Value_None>>,
                     <<"a", Value_Int(1)>> >>
    /\ pretty(Value_Dict(dict)) = "(a: 1, ab: none, b: 1)"
    /\ arr = <<Value_None>>

\* C9: Int(n) cast to f64 is Ok(n as a float); Length and Relative cast to
\* Linear are Ok; Linear cast to Length or to Relative and Float cast to i64
\* are Err holding the argument unchanged; no cast to a primitive type
\* returns Warn.
C9_OneDirectional ==
    (BareCastDone /\ castTarget[2] \in PrimitiveTypes) =>
        /\ (castIn[1] = "Int" /\ castTarget[2] = "f64") =>
              castOut = <<"Ok", <<"f64",
                  <<"fin", castIn[2] < 0,
                    10 * (IF castIn[2] < 0 THEN -castIn[2] ELSE castIn[2])>> >> >>
        /\ (castIn[1] \in {"Length", "Relative"} /\ castTarget[2] = "Linear") =>
              castOut[1] = "Ok"
        /\ (castIn[1] = "Linear" /\ castTarget[2] \in {"Length", "Relative"}) =>
              castOut = <<"Err", castIn>>
        /\ (castIn[1] = "Float" /\ castTarget[2] = "i64") =>
              castOut = <<"Err", castIn>>
        /\ castOut[1] # "Warn"

\* C9 witness: a Linear with a nonzero relative part was cast to Length and
\* came back in the Err.
C9_Witness ==
    /\ castIn = Value_Linear(Linear_new(F64(FALSE, 300), F64(FALSE, 20)))
    /\ castTarget = <<"T", "Length">>
    /\ castOut = <<"Err", castIn>>

\* Step (2) of the resolution order: the first declared pattern that
\* matches, 0 if none.
FirstDeclared(T, v) ==
    LET hits == {i \in 1..Len(Patterns(T)) : Patterns(T)[i][1] = v[1]}
    IN  IF hits = {} THEN 0 ELSE CHOOSE i \in hits : \A j \in hits : i <= j

\* Step (3): the container downcast to T, then to each type T declares
\* itself coercible from, in declaration order.
FirstAnyDeclared(T, c) ==
    LET hits == {i \in 1..Len(AnyPatterns(T)) : AnyPatterns(T)[i][1] = c[2][1]}
    IN  IF hits = {} THEN 0 ELSE CHOOSE i \in hits : \A j \in hits : i <= j

ResolveAny(T, v) ==
    IF v[2][2][1] = T THEN <<"Ok", v[2][2]>>
    ELSE IF FirstAnyDeclared(T, v[2]) > 0
    THEN <<"Ok", <<T, <<AnyPatterns(T)[FirstAnyDeclared(T, v[2])][2], v[2][2]>> >> >>
    ELSE <<"Err", v>>

\* The resolution order, with the downcast step taken for the targets in
\* `downcasting`.
Resolve(T, v, downcasting) ==
    IF T \in PrimitiveTypes /\ v[1] = Variant(T) THEN <<"Ok", <<T, v[2]>> >>
    ELSE IF FirstDeclared(T, v) > 0
    THEN <<"Ok", <<T, PatternOut(Patterns(T)[FirstDeclared(T, v)][2], v[2])>> >>
    ELSE IF v[1] = "Any" /\ T \in downcasting THEN ResolveAny(T, v)
    ELSE <<"Err", v>>

\* C10 as stated: for every target T, primitive or host-registered, the
\* cast resolves as (1) direct variant match, (2) declared patterns in
\* order, (3) for a Value::Any the downcast to T and then to each declared
\* type in order, (4) Err; so a Value::Any holding a T casts to T as Ok.
C10_ResolutionAllTargets ==
    (BareCastDone /\ castTarget[2] \in PrimitiveTypes \cup HostTypes) =>
        castOut = Resolve(castTarget[2], castIn, PrimitiveTypes \cup HostTypes)

\* C10 amended: a host-registered target resolves as (2), (3), (4); a
\* primitive target resolves as (1), (2), (4) with no downcast step, so a
\* Value::Any cast to a primitive type is Err holding the original value
\* even when the container holds that very type.
C10_ResolutionByKind ==
    (BareCastDone /\ castTarget[2] \in PrimitiveTypes \cup HostTypes) =>
        /\ castOut = Resolve(castTarget[2], castIn, HostTypes)
        /\ (castIn[1] = "Any" /\ castTarget[2] \in PrimitiveTypes) =>
              castOut = <<"Err", castIn>>
        /\ (/\ castIn[1] = "Any"
            /\ castTarget[2] \in HostTypes
            /\ castIn[2][2][1] = castTarget[2]) =>
              castOut = <<"Ok", castIn[2][2]>>

\* C10 witness: a container holding an i64 was cast to Twice; the downcast
\* to Twice failed and the first of the two declared i64 arms decided.
C10_Witness ==
    /\ castIn = Value_Any(ValueAny_new(<<"i64", 1>>))
    /\ castTarget = <<"T", "Twice">>
    /\ castOut = <<"Ok", <<"Twice", <<"twice_any_first", <<"i64", 1>> >> >> >>

====
